---- MODULE Spec2Model ----
(***************************************************************************)
(* Model of the Google Ads Visualizer (src/src/App.tsx): the AdCanvas      *)
(* geometry classifier and drag controller, and the App component's shared *)
(* state, presets and persistent store.                                    *)
(*                                                                         *)
(* Numbers: imageScale is kept in hundredths (1.0 is 100, 0.05 is 5), so   *)
(* the slider arithmetic stays in the integers; pixel coordinates and      *)
(* sizes are integers as in the source.                                    *)
(***************************************************************************)
EXTENDS Integers, Sequences, FiniteSets, TLC

\* ------------------------------------------------------------------------
\* Bounds of the model (not program constants)
\* ------------------------------------------------------------------------

\* sizes 1..MaxDim x 1..MaxDim are classified, next to the catalog sizes
MaxDim == 64

\* |imageOffset.x| and |imageOffset.y| a drag may reach
MaxOffX == 30

MaxOffY == 20

\* millisecond clock values 0..MaxClock
MaxClock == 1

\* images uploaded (read or being read) in a session
MaxImages == 3

\* edits of the copy and design fields in a session
MaxEdits == 2

\* presets held when a further preset may be saved in the editing sessions
MaxHeld == 2

\* ------------------------------------------------------------------------
\* Program constants
\* ------------------------------------------------------------------------

\* [preset, ...prev].slice(0, 10) and presets.slice(0, 10)
PresetCap == 10

\* size.h <= 60
MicroHeight == 60

\* <input type="range" min="0.5" max="1.5" step="0.05">, in hundredths
ScaleMin == 50

ScaleMax == 150

ScaleStep == 5

\* useState(1) for imageScale, in hundredths
ScaleDefault == 100

Null == [null |-> TRUE]

Pt(x, y) == [x |-> x, y |-> y]

Min(a, b) == IF a < b THEN a ELSE b

Abs(a) == IF a < 0 THEN -a ELSE a

\* ------------------------------------------------------------------------
\* The catalog of preview instances rendered by App
\* ------------------------------------------------------------------------

Catalog ==
  { [label |-> "Billboard",          w |-> 970, h |-> 250, highlightDrag |-> TRUE,  hasCallback |-> TRUE],
    [label |-> "Medium rectangle",   w |-> 300, h |-> 250, highlightDrag |-> FALSE, hasCallback |-> FALSE],
    [label |-> "Large rectangle",    w |-> 336, h |-> 280, highlightDrag |-> FALSE, hasCallback |-> FALSE],
    [label |-> "Square",             w |-> 250, h |-> 250, highlightDrag |-> FALSE, hasCallback |-> FALSE],
    [label |-> "Leaderboard",        w |-> 728, h |-> 90,  highlightDrag |-> FALSE, hasCallback |-> FALSE],
    [label |-> "Mobile leaderboard", w |-> 320, h |-> 50,  highlightDrag |-> FALSE, hasCallback |-> FALSE],
    [label |-> "Large mobile",       w |-> 320, h |-> 100, highlightDrag |-> FALSE, hasCallback |-> FALSE],
    [label |-> "Half page",          w |-> 300, h |-> 600, highlightDrag |-> FALSE, hasCallback |-> FALSE],
    [label |-> "Wide skyscraper",    w |-> 160, h |-> 600, highlightDrag |-> FALSE, hasCallback |-> FALSE],
    [label |-> "Vertical rectangle", w |-> 240, h |-> 400, highlightDrag |-> FALSE, hasCallback |-> FALSE] }

Instances == { c.label : c \in Catalog }

Card(i) == CHOOSE c \in Catalog : c.label = i

\* AdPreviewCard passes highlightDrag as enableDrag (default false)
enableDrag(i) == Card(i).highlightDrag

\* ... and onImageOffsetChange, which only the Billboard card is given
onImageOffsetChange(i) == Card(i).hasCallback

\* ------------------------------------------------------------------------
\* Geometry classifier (AdCanvas)
\* ------------------------------------------------------------------------

\* variant: the boundary counted as wide
isLeaderboardInclusive(s) == 2 * s.w >= 3 * s.h

\* size.w > size.h * 1.5, on integers: 2w > 3h
isLeaderboard(s) == 2 * s.w > 3 * s.h

\* size.h > size.w * 1.5
isSkyscraper(s) == 2 * s.h > 3 * s.w

isMicro(s) == s.h <= MicroHeight

Classify(s) ==
  [isLeaderboard |-> isLeaderboard(s),
   isSkyscraper  |-> isSkyscraper(s),
   isMicro       |-> isMicro(s)]

\* the branch the class-keyed ternaries of the render take
LayoutClass(f) ==
  IF f.isLeaderboard THEN "Leaderboard"
  ELSE IF f.isSkyscraper THEN "Skyscraper"
  ELSE "Standard"

SizeInputs ==
  { [w |-> a, h |-> b] : a \in 1..MaxDim, b \in 1..MaxDim }
    \cup { [w |-> c.w, h |-> c.h] : c \in Catalog }

\* ------------------------------------------------------------------------
\* State
\* ------------------------------------------------------------------------

VARIABLES
  phase,             \* "init" before App mounts, then "running", or "crashed"
  store,             \* localStorage["ga-visualizer-presets"], as stored text
  storeWritable,     \* FALSE when localStorage.setItem throws (quota, denied)
  now,               \* Date.now()
  presets,           \* App state: the parsed value held as presets
  headline, subhead, cta, primaryColor, darkMode,
  imageScale,        \* in hundredths
  imageOffset,
  images, activeImageIndex,
  reading,           \* FileReaders started and not yet loaded, per file
  dragging, dragStartRef, offsetStartRef,   \* per AdCanvas instance
  size, layout,      \* an AdCanvas of a given size and its classification
  exports,           \* handleDownload calls whose toPng promise is pending
  outcome,           \* how the last export ended: a file or an alert
  edits,             \* number of copy and design edits handled so far
  gesture            \* history: pointer displacement of the drag gestures

vars ==
  << phase, store, storeWritable, now, presets, headline, subhead, cta,
     primaryColor, darkMode, imageScale, imageOffset, images,
     activeImageIndex, reading, dragging, dragStartRef, offsetStartRef,
     size, layout, exports, outcome, edits, gesture >>

appVars ==
  << phase, store, storeWritable, now, presets, headline, subhead, cta,
     primaryColor, darkMode, imageScale, imageOffset, images,
     activeImageIndex, reading, dragging, dragStartRef, offsetStartRef,
     exports, outcome, edits, gesture >>

copyVars == << headline, subhead, cta, primaryColor, darkMode >>

imageVars == << images, activeImageIndex, reading >>

dragVars == << dragging, dragStartRef, offsetStartRef, gesture >>

storeVars == << store, storeWritable, presets >>

exportVars == << exports, outcome >>

\* ------------------------------------------------------------------------
\* Inputs
\* ------------------------------------------------------------------------

Headlines == { "", "Save 20%" }

Subheads == { "", "Ends Friday" }

Ctas == { "", "Shop now" }

Colors == { "#EF4444", "#4285F4" }

\* what window.prompt returns: null on cancel, or the text typed
PromptAnswers ==
  { [cancelled |-> TRUE, text |-> ""],
    [cancelled |-> FALSE, text |-> ""],
    [cancelled |-> FALSE, text |-> "Holiday"] }

\* values asked of the scale slider, in hundredths: 0.2, 0.72, 3.0
ScaleRequests == { 20, 72, 300 }

\* clientX and clientY of the pointer events
Points == { Pt(0, 0), Pt(10, 5), Pt(20, 15), Pt(20, 0) }

Files == { "a.png", "b.png", "c.png" }

\* ------------------------------------------------------------------------
\* Presets and the persistent store
\* ------------------------------------------------------------------------

Preset(id, name, h, s, c, col, dark, scale, off) ==
  [id |-> id, name |-> name, headline |-> h, subhead |-> s, cta |-> c,
   primaryColor |-> col, darkMode |-> dark, imageScale |-> scale,
   imageOffset |-> off]

Arr(items) == [kind |-> "array", items |-> items]

\* presets written by an earlier session: ids are earlier timestamps, which
\* differ between neighbours
StoredPreset(i) ==
  Preset(ToString(0 - (1 + (i % 2))), "Stored", "Save 20%", "", "",
         "#EF4444", FALSE, ScaleDefault, Pt(0, 0))

StoredArray(n) == Arr([i \in 1..n |-> StoredPreset(i)])

\* a stored preset whose fields the application never validated
ForeignPreset ==
  Preset("-1", "Foreign", "Black Friday", "Ends Friday", "Shop now",
         "#4285F4", TRUE, 300, Pt(10, 5))

Missing == [kind |-> "missing", items |-> << >>]

EmptyText == [kind |-> "empty", items |-> << >>]

Corrupt == [kind |-> "corrupt", items |-> << >>]

JsonObject == [kind |-> "object", items |-> << >>]

JsonNull == [kind |-> "null", items |-> << >>]

IsArray(v) == v.kind = "array"

\* array.slice(0, n)
Slice(seq, n) == SubSeq(seq, 1, Min(Len(seq), n))

\* JSON.parse of the stored text: throws on text that is not JSON
JsonParse(raw) ==
  IF raw.kind = "corrupt" THEN [kind |-> "throw", items |-> << >>]
  ELSE [kind |-> raw.kind, items |-> raw.items]

\* JSON.stringify of an array of presets
JsonStringify(items) == Arr(items)

\* the initializer of the presets state
InitialPresets(raw) ==
  IF raw.kind \in { "missing", "empty" } THEN Arr(<< >>)
  ELSE LET v == JsonParse(raw)
       IN IF v.kind = "throw" THEN Arr(<< >>) ELSE v

\* the effect on [presets]: setItem(JSON.stringify(presets.slice(0, 10)))
Persisted(p) ==
  IF storeWritable THEN JsonStringify(Slice(p.items, PresetCap)) ELSE store

\* the render reads presets.length and calls presets.map
RenderThrows(p) == ~IsArray(p)

\* ------------------------------------------------------------------------
\* App: construction and mount
\* ------------------------------------------------------------------------

NoRefs == [i \in Instances |-> Null]

Idle == [i \in Instances |-> FALSE]

\* history of the pointer gestures: where the last accepted pointer-down was
\* (down) and what the offset was then (from), how far the pointer has moved
\* from there at its last move (cur), and the sum of these displacements over
\* the gestures before (done)
NoGesture == [down |-> Null, from |-> Null, cur |-> Pt(0, 0), done |-> Pt(0, 0)]

\* the useState initial values; the store is what an earlier session, or
\* anything else writing the key, left behind
InitApp(stores, writable) ==
  /\ phase = "init"
  /\ store \in stores
  /\ storeWritable \in writable
  /\ now = 0
  /\ presets = Arr(<< >>)
  /\ headline = ""
  /\ subhead = ""
  /\ cta = ""
  /\ primaryColor = "#EF4444"
  /\ darkMode = FALSE
  /\ imageScale = ScaleDefault
  /\ imageOffset = Pt(0, 0)
  /\ images = << >>
  /\ activeImageIndex = 0
  /\ reading = [f \in Files |-> 0]
  /\ dragging = Idle
  /\ dragStartRef = NoRefs
  /\ offsetStartRef = NoRefs
  /\ exports = {}
  /\ outcome = Null
  /\ edits = 0
  /\ gesture = NoGesture

\* first render of App: the presets initializer reads the store, the render
\* maps over presets, then the effect on [presets] writes the store
Mount ==
  /\ phase = "init"
  /\ LET p == InitialPresets(store)
     IN /\ presets' = p
        /\ IF RenderThrows(p)
           THEN phase' = "crashed" /\ store' = store
           ELSE phase' = "running" /\ store' = Persisted(p)
  /\ UNCHANGED << storeWritable, now, copyVars, imageScale, imageOffset,
                  imageVars, dragVars, size, layout, exportVars, edits >>

\* time passes
Tick ==
  /\ now < MaxClock
  /\ now' = now + 1
  /\ UNCHANGED << phase, storeVars, copyVars, imageScale, imageOffset,
                  imageVars, dragVars, size, layout, exportVars, edits >>

\* ------------------------------------------------------------------------
\* App: copy and design controls
\* ------------------------------------------------------------------------

Editing ==
  /\ phase = "running"
  /\ edits < MaxEdits
  /\ edits' = edits + 1

setHeadline(v) ==
  /\ Editing
  /\ headline' = v
  /\ UNCHANGED << phase, storeVars, now, subhead, cta, primaryColor, darkMode,
                  imageScale, imageOffset, imageVars, dragVars, size, layout, exportVars >>

setSubhead(v) ==
  /\ Editing
  /\ subhead' = v
  /\ UNCHANGED << phase, storeVars, now, headline, cta, primaryColor, darkMode,
                  imageScale, imageOffset, imageVars, dragVars, size, layout, exportVars >>

setCta(v) ==
  /\ Editing
  /\ cta' = v
  /\ UNCHANGED << phase, storeVars, now, headline, subhead, primaryColor,
                  darkMode, imageScale, imageOffset, imageVars, dragVars,
                  size, layout, exportVars >>

setPrimaryColor(v) ==
  /\ Editing
  /\ primaryColor' = v
  /\ UNCHANGED << phase, storeVars, now, headline, subhead, cta, darkMode,
                  imageScale, imageOffset, imageVars, dragVars, size, layout, exportVars >>

\* the halo checker: setDarkMode((prev) => !prev)
toggleDarkMode ==
  /\ Editing
  /\ darkMode' = ~darkMode
  /\ UNCHANGED << phase, storeVars, now, headline, subhead, cta, primaryColor,
                  imageScale, imageOffset, imageVars, dragVars, size, layout, exportVars >>

\* the value a range input with min, max and step reports for a value asked
\* of it: clamped to [min, max], then moved to the nearest step
RangeValue(v) ==
  LET c == IF v < ScaleMin THEN ScaleMin
           ELSE IF v > ScaleMax THEN ScaleMax ELSE v
  IN ScaleMin + ((c - ScaleMin + (ScaleStep \div 2)) \div ScaleStep) * ScaleStep

\* onChange of the scale slider: setImageScale(parseFloat(e.target.value))
setImageScale(v) ==
  /\ Editing
  /\ imageScale' = RangeValue(v)
  /\ UNCHANGED << phase, storeVars, now, copyVars, imageOffset, imageVars,
                  dragVars, size, layout, exportVars >>

\* ------------------------------------------------------------------------
\* App: presets
\* ------------------------------------------------------------------------

\* the snapshot handleSavePreset takes of the live state
CurrentPreset(name) ==
  Preset(ToString(now), name, headline, subhead, cta, primaryColor, darkMode,
         imageScale, imageOffset)

\* variant: the snapshot added at the end
WithSavedAtEnd(preset, prev) == Slice(prev \o << preset >>, PresetCap)

\* [preset, ...prev].slice(0, 10)
WithSaved(preset, prev) == Slice(<< preset >> \o prev, PresetCap)

\* prev.filter((p) => p.id !== id)
WithoutId(prev, id) == SelectSeq(prev, LAMBDA p : p.id # id)

\* "Save current": prompt for a name, prepend the snapshot, persist
handleSavePreset(answer) ==
  /\ phase = "running"
  /\ IF answer.cancelled \/ answer.text = ""
     THEN UNCHANGED << presets, store >>
     ELSE /\ presets' = Arr(WithSaved(CurrentPreset(answer.text), presets.items))
          /\ store' = Persisted(presets')
  /\ UNCHANGED << phase, storeWritable, now, copyVars, imageScale, imageOffset,
                  imageVars, dragVars, size, layout, exportVars, edits >>

\* variant: the image offset not restored
applyPresetKeepsOffset(k) ==
  /\ phase = "running"
  /\ k \in 1..Len(presets.items)
  /\ LET preset == presets.items[k]
     IN /\ headline' = preset.headline
        /\ subhead' = preset.subhead
        /\ cta' = preset.cta
        /\ primaryColor' = preset.primaryColor
        /\ darkMode' = preset.darkMode
        /\ imageScale' = preset.imageScale
        /\ imageOffset' = imageOffset
  /\ UNCHANGED << phase, storeVars, now, imageVars, dragVars, size, layout, exportVars,
                  edits >>

\* click on the name of the k-th preset listed
applyPreset(k) ==
  /\ phase = "running"
  /\ k \in 1..Len(presets.items)
  /\ LET preset == presets.items[k]
     IN /\ headline' = preset.headline
        /\ subhead' = preset.subhead
        /\ cta' = preset.cta
        /\ primaryColor' = preset.primaryColor
        /\ darkMode' = preset.darkMode
        /\ imageScale' = preset.imageScale
        /\ imageOffset' = preset.imageOffset
  /\ UNCHANGED << phase, storeVars, now, imageVars, dragVars, size, layout, exportVars,
                  edits >>

\* click on the delete button of the k-th preset listed
deletePreset(k) ==
  /\ phase = "running"
  /\ k \in 1..Len(presets.items)
  /\ presets' = Arr(WithoutId(presets.items, presets.items[k].id))
  /\ store' = Persisted(presets')
  /\ UNCHANGED << phase, storeWritable, now, copyVars, imageScale, imageOffset,
                  imageVars, dragVars, size, layout, exportVars, edits >>

\* ------------------------------------------------------------------------
\* App: images
\* ------------------------------------------------------------------------

\* FileReader.readAsDataURL: a distinct data URL per file
DataUrl(f) == [dataUrl |-> f]

\* images[activeImageIndex] ?? null (activeImageIndex counts from 0)
activeImage ==
  IF activeImageIndex + 1 \in 1..Len(images)
  THEN images[activeImageIndex + 1] ELSE Null

Reading == { f \in Files : reading[f] > 0 }

ReadsStarted ==
  LET RECURSIVE Sum(_)
      Sum(S) == IF S = {} THEN 0
                ELSE LET f == CHOOSE g \in S : TRUE
                     IN reading[f] + Sum(S \ {f})
  IN Sum(Files)

\* a file is chosen: a FileReader starts reading it
handleImageUpload(f) ==
  /\ phase = "running"
  /\ Len(images) + ReadsStarted < MaxImages
  /\ reading' = [reading EXCEPT ![f] = @ + 1]
  /\ UNCHANGED << phase, storeVars, now, copyVars, imageScale, imageOffset,
                  images, activeImageIndex, dragVars, size, layout, exportVars, edits >>

\* variant: the active index set to the new length
readerOnloadPastEnd(f) ==
  /\ phase = "running"
  /\ reading[f] > 0
  /\ reading' = [reading EXCEPT ![f] = @ - 1]
  /\ images' = Append(images, DataUrl(f))
  /\ activeImageIndex' = Len(images')
  /\ UNCHANGED << phase, storeVars, now, copyVars, imageScale, imageOffset,
                  dragVars, size, layout, exportVars, edits >>

\* reader.onload: append the data URL, make it the active image
readerOnload(f) ==
  /\ phase = "running"
  /\ reading[f] > 0
  /\ reading' = [reading EXCEPT ![f] = @ - 1]
  /\ images' = Append(images, DataUrl(f))
  /\ activeImageIndex' = Len(images') - 1
  /\ UNCHANGED << phase, storeVars, now, copyVars, imageScale, imageOffset,
                  dragVars, size, layout, exportVars, edits >>

\* variant: the image moved back to the origin when the variant changes
selectVariantResetsOffset(idx) ==
  /\ phase = "running"
  /\ idx \in 0..(Len(images) - 1)
  /\ activeImageIndex' = idx
  /\ imageOffset' = Pt(0, 0)
  /\ UNCHANGED << phase, storeVars, now, copyVars, imageScale,
                  images, reading, dragVars, size, layout, exportVars, edits >>

\* click on the thumbnail of variant idx
selectVariant(idx) ==
  /\ phase = "running"
  /\ idx \in 0..(Len(images) - 1)
  /\ activeImageIndex' = idx
  /\ UNCHANGED << phase, storeVars, now, copyVars, imageScale, imageOffset,
                  images, reading, dragVars, size, layout, exportVars, edits >>

\* ------------------------------------------------------------------------
\* AdCanvas: drag controller of instance i
\* ------------------------------------------------------------------------

Plus(a, b) == Pt(a.x + b.x, a.y + b.y)

Minus(a, b) == Pt(a.x - b.x, a.y - b.y)

InReach(o) == Abs(o.x) <= MaxOffX /\ Abs(o.y) <= MaxOffY

\* variant: each move added to the live offset
DraggedOffsetPerMove(offsetStart, dragStart, pointer) ==
  Pt(imageOffset.x + (pointer.x - dragStart.x),
     imageOffset.y + (pointer.y - dragStart.y))

\* variant: the offset at pointer-down forgotten
DraggedOffsetFromOrigin(offsetStart, dragStart, pointer) ==
  Pt(pointer.x - dragStart.x, pointer.y - dragStart.y)

\* offsetStartRef.current + (pointer - dragStartRef.current)
DraggedOffset(offsetStart, dragStart, pointer) ==
  Pt(offsetStart.x + (pointer.x - dragStart.x),
     offsetStart.y + (pointer.y - dragStart.y))

\* variant: no check that an image is present
DownRejectedNoImageCheck(i) == ~enableDrag(i) \/ ~onImageOffsetChange(i)

\* if (!enableDrag || !onImageOffsetChange || !image) return
DownRejected(i) ==
  ~enableDrag(i) \/ ~onImageOffsetChange(i) \/ activeImage = Null

\* variant: no check that a drag is active
MoveRejectedNoDragCheck(i) ==
  \/ ~enableDrag(i) \/ ~onImageOffsetChange(i)
  \/ dragStartRef[i] = Null \/ offsetStartRef[i] = Null

\* the two early returns of handleMouseMove
MoveRejected(i) ==
  \/ ~enableDrag(i) \/ ~dragging[i] \/ ~onImageOffsetChange(i)
  \/ dragStartRef[i] = Null \/ offsetStartRef[i] = Null

\* onMouseDown on the image region, pointer at e
handleMouseDown(i, e) ==
  /\ phase = "running"
  /\ IF DownRejected(i)
     THEN UNCHANGED dragVars
     ELSE /\ dragging' = [dragging EXCEPT ![i] = TRUE]
          /\ dragStartRef' = [dragStartRef EXCEPT ![i] = e]
          /\ offsetStartRef' = [offsetStartRef EXCEPT ![i] = imageOffset]
          /\ gesture' = [down |-> e, from |-> imageOffset, cur |-> Pt(0, 0),
                         done |-> Plus(gesture.done, gesture.cur)]
  /\ UNCHANGED << phase, storeVars, now, copyVars, imageScale, imageOffset,
                  imageVars, size, layout, exportVars, edits >>

\* onMouseMove on the canvas, pointer at e
handleMouseMove(i, e) ==
  /\ phase = "running"
  /\ IF MoveRejected(i)
     THEN UNCHANGED << imageOffset, gesture >>
     ELSE /\ imageOffset' = DraggedOffset(offsetStartRef[i], dragStartRef[i], e)
          /\ InReach(imageOffset')
          /\ gesture' = [gesture EXCEPT !.cur = Minus(e, gesture.down)]
  /\ UNCHANGED << phase, storeVars, now, copyVars, imageScale, imageVars,
                  dragging, dragStartRef, offsetStartRef, size, layout, exportVars, edits >>

stopDragging(i) ==
  /\ phase = "running"
  /\ dragging' = [dragging EXCEPT ![i] = FALSE]
  /\ gesture' = IF dragging[i]
                THEN [gesture EXCEPT !.done = Plus(gesture.done, gesture.cur),
                                     !.cur = Pt(0, 0)]
                ELSE gesture
  /\ UNCHANGED << phase, storeVars, now, copyVars, imageScale, imageOffset,
                  imageVars, dragStartRef, offsetStartRef, size, layout, exportVars, edits >>

onMouseUp(i) == stopDragging(i)

onMouseLeave(i) == stopDragging(i)

\* ------------------------------------------------------------------------
\* AdCanvas: the element tree rendered for a size
\* ------------------------------------------------------------------------

\* variant: the offset of the first render passed on
sharedSettingsInitialOffset ==
  [image |-> activeImage, headline |-> headline, subhead |-> subhead,
   cta |-> cta, primaryColor |-> primaryColor, darkMode |-> darkMode,
   imageScale |-> imageScale, imageOffset |-> Pt(0, 0)]

\* the settings App hands to every AdPreviewCard
sharedSettings ==
  [image |-> activeImage, headline |-> headline, subhead |-> subhead,
   cta |-> cta, primaryColor |-> primaryColor, darkMode |-> darkMode,
   imageScale |-> imageScale, imageOffset |-> imageOffset]

\* variant: the subhead dropped only in the micro leaderboard layout
SubheadShownUnlessMicroLeaderboard(f) == ~(f.isMicro /\ f.isLeaderboard)

\* {!isMicro && (<p> ... </p>)}
SubheadShown(f) == ~f.isMicro

\* the elements AdCanvas returns for size s, props p and enableDrag drag
AdCanvasTree(s, p, drag) ==
  LET f == Classify(s)
  IN [ width |-> s.w, height |-> s.h,
       container |-> IF p.darkMode THEN "bg-slate-900" ELSE "bg-white",
       direction |-> IF f.isLeaderboard THEN "flex-row" ELSE "flex-col",
       imageRegion |->
         IF f.isLeaderboard
         THEN (IF f.isMicro THEN "w-12 ml-auto order-2"
                            ELSE "w-1/4 h-full order-last")
         ELSE IF f.isSkyscraper THEN "w-full h-1/3 mt-8"
         ELSE "w-full h-1/2 mt-4",
       image |->
         IF p.image # Null
         THEN [src |-> p.image, translate |-> p.imageOffset,
               scale |-> p.imageScale,
               cursor |-> IF drag THEN "grab" ELSE "default"]
         ELSE [placeholder |-> IF f.isMicro THEN 12 ELSE 24],
       headline |->
         [text |-> p.headline,
          color |-> IF p.darkMode THEN "text-white" ELSE "text-slate-800",
          fontSize |-> IF f.isMicro THEN 11
                       ELSE IF f.isLeaderboard THEN 18
                       ELSE IF f.isSkyscraper THEN 20 ELSE 18],
       subhead |->
         IF SubheadShown(f)
         THEN [text |-> p.subhead,
               color |-> IF p.darkMode THEN "text-slate-300"
                                       ELSE "text-slate-600",
               fontSize |-> IF f.isSkyscraper THEN 14 ELSE 12]
         ELSE Null,
       cta |->
         [text |-> p.cta, backgroundColor |-> p.primaryColor,
          padding |-> IF f.isMicro THEN "2px 8px" ELSE "6px 16px",
          fontSize |-> IF f.isMicro THEN 10 ELSE 12] ]

\* AdCanvas rendered for the size, with the shared settings
renderCreative ==
  /\ layout = Null
  /\ layout' = AdCanvasTree(size, sharedSettings, FALSE)
  /\ UNCHANGED << appVars, size >>

\* ------------------------------------------------------------------------
\* AdCanvas: classification of a rendered size
\* ------------------------------------------------------------------------

renderAdCanvas ==
  /\ layout = Null
  /\ layout' = Classify(size)
  /\ UNCHANGED << appVars, size >>

\* ------------------------------------------------------------------------
\* AdPreviewCard: PNG export
\* ------------------------------------------------------------------------

\* the rasterizer's bound on the exports in flight
MaxExports == 2

\* the element under wrapperRef of the instance: its AdCanvas, rendered with
\* the shared settings of the last render of App
wrapperRef(i) ==
  AdCanvasTree([w |-> Card(i).w, h |-> Card(i).h], sharedSettings,
               enableDrag(i))

\* html-to-image: the PNG of a node shows the node as it is at the call
toPng(node, options) == [png |-> node, pixelRatio |-> options.pixelRatio]

\* the content and the transform at the time of a call, kept as history
Invoked ==
  [content |-> [image |-> activeImage, headline |-> headline,
                subhead |-> subhead, cta |-> cta,
                primaryColor |-> primaryColor, darkMode |-> darkMode],
   transform |-> [imageScale |-> imageScale, imageOffset |-> imageOffset]]

\* click on the PNG button of the instance: the promise of toPng is pending
\* from here
handleDownload(i) ==
  /\ phase = "running"
  /\ Cardinality(exports) < MaxExports
  /\ exports' = exports \cup
       { [label |-> i, w |-> Card(i).w, h |-> Card(i).h,
          dataUrl |-> toPng(wrapperRef(i),
                            [cacheBust |-> TRUE, pixelRatio |-> 2]),
          invoked |-> Invoked] }
  /\ UNCHANGED << phase, storeVars, now, copyVars, imageScale, imageOffset,
                  imageVars, dragVars, size, layout, outcome, edits >>

\* the promise resolves: the link named after the label and the size is
\* clicked
toPngResolved(t) ==
  /\ t \in exports
  /\ exports' = exports \ { t }
  /\ outcome' = [label |-> t.label, w |-> t.w, h |-> t.h,
                    href |-> t.dataUrl, invoked |-> t.invoked]
  /\ UNCHANGED << phase, storeVars, now, copyVars, imageScale, imageOffset,
                  imageVars, dragVars, size, layout, edits >>

\* the promise rejects: the error is logged and an alert shown
toPngRejected(t) ==
  /\ t \in exports
  /\ exports' = exports \ { t }
  /\ outcome' = [alert |-> "Could not export PNG. Check console for details."]
  /\ UNCHANGED << phase, storeVars, now, copyVars, imageScale, imageOffset,
                  imageVars, dragVars, size, layout, edits >>

\* ------------------------------------------------------------------------
\* Specifications
\* ------------------------------------------------------------------------

\* the one instance App renders with highlightDrag and setImageOffset
Primary == "Billboard"

BillboardSize == [w |-> 970, h |-> 250]

\* the classifier on its own, over sizes drawn at Init
InitClassify ==
  /\ InitApp({ Missing }, { TRUE })
  /\ size \in SizeInputs
  /\ layout = Null

NextClassify == renderAdCanvas

SpecClassify == InitClassify /\ [][NextClassify]_vars

\* the render on its own, over sizes drawn at Init, in a session whose store
\* held one preset: with or without an image loaded, with the initial
\* settings or after that preset was applied
InitRender ==
  /\ phase = "running"
  /\ store = Arr(<< ForeignPreset >>)
  /\ storeWritable = TRUE
  /\ now = 0
  /\ presets = Arr(<< ForeignPreset >>)
  /\ \E p \in { Preset("", "", "", "", "", "#EF4444", FALSE, ScaleDefault,
                        Pt(0, 0)), ForeignPreset } :
        /\ headline = p.headline
        /\ subhead = p.subhead
        /\ cta = p.cta
        /\ primaryColor = p.primaryColor
        /\ darkMode = p.darkMode
        /\ imageScale = p.imageScale
        /\ imageOffset = p.imageOffset
  /\ images \in { << >>, << DataUrl("a.png") >> }
  /\ activeImageIndex = 0
  /\ reading = [f \in Files |-> 0]
  /\ dragging = Idle
  /\ dragStartRef = NoRefs
  /\ offsetStartRef = NoRefs
  /\ exports = {}
  /\ outcome = Null
  /\ edits = 0
  /\ gesture = NoGesture
  /\ size \in SizeInputs
  /\ layout = Null

NextRender == renderCreative

SpecRender == InitRender /\ [][NextRender]_vars

\* sessions of uploads, whose reads end in any order, and variant selections
InitUpload ==
  /\ InitApp({ Missing }, { TRUE })
  /\ size = BillboardSize
  /\ layout = Classify(size)

NextUpload ==
  \/ Mount
  \/ \E f \in Files : handleImageUpload(f)
  \/ \E f \in Files : readerOnload(f)
  \/ \E idx \in 0..(MaxImages - 1) : selectVariant(idx)

SpecUpload == InitUpload /\ [][NextUpload]_vars

\* sessions of uploads, pointer events and applications of the preset the
\* store held; the preset is applied before, during or after the first drag
\* that moves the image, not after later ones, which keeps the history of
\* the gestures within the reach of the offset
InitOffset ==
  /\ InitApp({ Arr(<< ForeignPreset >>) }, { TRUE })
  /\ size = BillboardSize
  /\ layout = Classify(size)

\* one of the instances rendered without highlightDrag
Mirror == "Square"

NextOffset ==
  \/ Mount
  \/ handleImageUpload("a.png")
  \/ readerOnload("a.png")
  \/ \E idx \in 0..(MaxImages - 1) : selectVariant(idx)
  \/ \E i \in { Primary, Mirror }, e \in Points : handleMouseDown(i, e)
  \/ \E i \in { Primary, Mirror }, e \in Points : handleMouseMove(i, e)
  \/ \E i \in { Primary, Mirror } : onMouseUp(i)
  \/ \E i \in { Primary, Mirror } : onMouseLeave(i)
  \/ gesture.done = Pt(0, 0) /\ applyPreset(1)

SpecOffset == InitOffset /\ [][NextOffset]_vars

\* sessions of one upload, headline edits, applications of the preset the
\* store held, a drag on the Billboard and exports of two instances, whose
\* promises settle in any order
InitExport ==
  /\ InitApp({ Arr(<< ForeignPreset >>) }, { TRUE })
  /\ size = BillboardSize
  /\ layout = Classify(size)

NextExport ==
  \/ Mount
  \/ ReadsStarted = 0 /\ images = << >> /\ handleImageUpload("a.png")
  \/ readerOnload("a.png")
  \/ setHeadline("Save 20%")
  \/ applyPreset(1)
  \/ gesture.down = Null /\ handleMouseDown(Primary, Pt(0, 0))
  \/ handleMouseMove(Primary, Pt(20, 15))
  \/ onMouseUp(Primary)
  \/ \E i \in { Primary, Mirror } : handleDownload(i)
  \/ \E t \in exports : toPngResolved(t)
  \/ \E t \in exports : toPngRejected(t)

SpecExport == InitExport /\ [][NextExport]_vars

\* a session of uploads and pointer events on the preview instances
InitDrag ==
  /\ InitApp({ Missing }, { TRUE })
  /\ size = BillboardSize
  /\ layout = Classify(size)

NextDrag ==
  \/ Mount
  \/ handleImageUpload("a.png")
  \/ readerOnload("a.png")
  \/ \E idx \in 0..(MaxImages - 1) : selectVariant(idx)
  \/ \E i \in Instances, e \in Points : handleMouseDown(i, e)
  \/ \E i \in Instances, e \in Points : handleMouseMove(i, e)
  \/ \E i \in Instances : onMouseUp(i)
  \/ \E i \in Instances : onMouseLeave(i)

SpecDrag == InitDrag /\ [][NextDrag]_vars

\* sessions that fill the preset collection, over stores that hold nothing,
\* a full collection, or more than the application ever writes
InitCap ==
  /\ InitApp({ Missing, StoredArray(PresetCap), StoredArray(PresetCap + 1) },
             { TRUE })
  /\ size = BillboardSize
  /\ layout = Classify(size)

NextCap ==
  \/ Mount
  \/ Tick
  \/ \E a \in PromptAnswers : handleSavePreset(a)
  \/ \E k \in 1..(PresetCap + 1) : applyPreset(k)
  \/ \E k \in 1..(PresetCap + 1) : deletePreset(k)

SpecCap == InitCap /\ [][NextCap]_vars

\* editing sessions: the copy and design controls and the presets, over
\* stores that are missing, not JSON, JSON but no array, or an array, and
\* over a store that takes no writes
InitPresets ==
  /\ \/ InitApp({ Missing, EmptyText, Corrupt, JsonObject, JsonNull,
                  Arr(<< ForeignPreset >>) }, { TRUE })
     \/ InitApp({ Missing }, { FALSE })
  /\ size = BillboardSize
  /\ layout = Classify(size)

NextPresets ==
  \/ Mount
  \/ Tick
  \/ \E v \in Headlines : setHeadline(v)
  \/ \E v \in Subheads : setSubhead(v)
  \/ \E v \in Ctas : setCta(v)
  \/ \E v \in Colors : setPrimaryColor(v)
  \/ toggleDarkMode
  \/ \E v \in ScaleRequests : setImageScale(v)
  \/ \E a \in PromptAnswers :
        Len(presets.items) < MaxHeld /\ handleSavePreset(a)
  \/ \E k \in 1..MaxHeld : applyPreset(k)
  \/ \E k \in 1..MaxHeld : deletePreset(k)

SpecPresets == InitPresets /\ [][NextPresets]_vars

\* ------------------------------------------------------------------------
\* Properties
\* ------------------------------------------------------------------------

\* C1: for every size with w > 0 and h > 0 the classifier yields Leaderboard
\* exactly when w > 1.5 h, Skyscraper exactly when h > 1.5 w, and Standard in
\* all other cases; the micro flag is set exactly when h <= 60, whatever the
\* class (970x250 Leaderboard and not micro, 320x50 Leaderboard and micro,
\* 300x600 Skyscraper and not micro).
ClassifierContract ==
  layout # Null =>
    LET wide == 10 * size.w > 15 * size.h
        tall == 10 * size.h > 15 * size.w
    IN /\ layout.isLeaderboard <=> wide
       /\ layout.isSkyscraper <=> tall
       /\ LayoutClass(layout) = "Leaderboard" <=> wide
       /\ LayoutClass(layout) = "Skyscraper" <=> tall
       /\ LayoutClass(layout) = "Standard" <=> (~wide /\ ~tall)
       /\ layout.isMicro <=> size.h <= 60
       /\ size = [w |-> 970, h |-> 250]
            => LayoutClass(layout) = "Leaderboard" /\ ~layout.isMicro
       /\ size = [w |-> 320, h |-> 50]
            => LayoutClass(layout) = "Leaderboard" /\ layout.isMicro
       /\ size = [w |-> 300, h |-> 600]
            => LayoutClass(layout) = "Skyscraper" /\ ~layout.isMicro

\* a wide size on the 1.5 boundary has been classified, and a micro one
ClassifierWitness ==
  /\ layout # Null
  /\ size = [w |-> 3, h |-> 2]
  /\ LayoutClass(layout) = "Standard"
  /\ layout.isMicro

\* C5: while a drag is active the shared offset is the offset recorded at
\* pointer-down plus the displacement of the pointer from the pointer-down
\* position at its last move, not the sum of the displacements of the moves.
DragMeasuresFromStart ==
  dragging[Primary] => imageOffset = Plus(gesture.from, gesture.cur)

\* from offset (0,0) the pointer has moved by (20,15) from the down-point,
\* which takes more than one move when the first went to (10,5)
DragWitness ==
  /\ dragging[Primary]
  /\ gesture.from = Pt(0, 0)
  /\ gesture.cur = Pt(20, 15)
  /\ imageOffset = Pt(20, 15)

\* C6: drag gestures add up: the shared offset is the origin offset plus the
\* sum of the net displacements of the gestures made, so that gestures of
\* d1 and then d2 end where one gesture of d1 + d2 ends.
DragAdditive ==
  imageOffset = Plus(Pt(0, 0), Plus(gesture.done, gesture.cur))

\* two or more finished gestures have moved the image by (30,20), further
\* than one gesture can
DragAdditiveWitness ==
  /\ ~dragging[Primary]
  /\ gesture.done = Pt(30, 20)
  /\ imageOffset = Pt(30, 20)

\* C7: only a pointer-down on the primary instance with an image present
\* starts a drag, exactly one instance is interaction-enabled, and pointer
\* events on the other instances, or any event while no image is loaded,
\* never change the shared offset.
DragOnlyOnPrimary ==
  [][ /\ { i \in Instances : enableDrag(i) /\ onImageOffsetChange(i) } = { Primary }
      /\ \A i \in Instances :
            (~dragging[i] /\ dragging'[i]) => (i = Primary /\ activeImage # Null)
      /\ activeImage = Null => imageOffset' = imageOffset
      /\ \A i \in Instances \ { Primary } :
            ( \/ \E e \in Points : handleMouseDown(i, e) \/ handleMouseMove(i, e)
              \/ stopDragging(i) )
              => (imageOffset' = imageOffset /\ dragging' = dragging) ]_vars

\* a drag is on, on the primary instance, with the image moved
DragOnlyOnPrimaryWitness ==
  /\ dragging = [i \in Instances |-> i = Primary]
  /\ activeImage # Null
  /\ imageOffset # Pt(0, 0)

\* C8: pointer-up and pointer-leave while Dragging return the controller to
\* Idle and retain the offset; while Idle no step, and so no pointer-move and
\* no pointer-down, changes the shared offset.
DragStopsAtRelease ==
  [][ /\ \A i \in Instances :
            (dragging[i] /\ (onMouseUp(i) \/ onMouseLeave(i)))
              => (~dragging'[i] /\ imageOffset' = imageOffset)
      /\ (\A i \in Instances : ~dragging[i]) => imageOffset' = imageOffset ]_vars

\* back to Idle after a drag that moved the image
DragStopsWitness ==
  /\ \A i \in Instances : ~dragging[i]
  /\ dragStartRef[Primary] # Null
  /\ imageOffset # Pt(0, 0)

\* C3: the live preset collection never holds more than 10 entries, whatever
\* array the store held at startup and whatever is saved, applied or deleted.
PresetsCapped == IsArray(presets) => Len(presets.items) <= 10

\* C4: saving under a non-empty name puts the new preset first and keeps the
\* presets held before behind it in their order; with 10 held, 10 are held
\* afterwards: the new one and the first 9 of before, the last one evicted.
SavePrepends ==
  [][ \A a \in PromptAnswers :
        (~a.cancelled /\ a.text # "" /\ handleSavePreset(a)) =>
          LET old == presets.items
              new == presets'.items
          IN /\ new[1].name = a.text
             /\ new[1].id = ToString(now)
             /\ \A j \in 2..Len(new) : new[j] = old[j - 1]
             /\ Len(old) < 10 => Len(new) = Len(old) + 1
             /\ Len(old) = 10 => (Len(new) = 10 /\ new[10] = old[9]) ]_vars

\* a save on a full collection loaded from the store: the stored presets 1..9
\* follow the new one, the 10th is gone
SavePrependsWitness ==
  /\ phase = "running"
  /\ Len(presets.items) = 10
  /\ presets.items[1].name = "Holiday"
  /\ presets.items[2] = StoredPreset(1)
  /\ presets.items[10] = StoredPreset(9)

\* the seven fields a preset snapshots, live and in a preset
Live ==
  [headline |-> headline, subhead |-> subhead, cta |-> cta,
   primaryColor |-> primaryColor, darkMode |-> darkMode,
   imageScale |-> imageScale, imageOffset |-> imageOffset]

Snapshot(p) ==
  [headline |-> p.headline, subhead |-> p.subhead, cta |-> p.cta,
   primaryColor |-> p.primaryColor, darkMode |-> p.darkMode,
   imageScale |-> p.imageScale, imageOffset |-> p.imageOffset]

\* C2: the live image scale lies in [0.5, 1.5] in every state reachable by
\* scale changes, preset saves, preset applications and startup loads of
\* stored presets.
ScaleClamped == imageScale >= 50 /\ imageScale <= 150

\* C9: applying a preset restores its snapshot exactly: a save snapshots the
\* seven live values, a preset held is never altered by later edits, saves,
\* applications or deletions, and applying it sets the seven live values to
\* its snapshot and leaves the image list and the active image alone.
PresetRestores ==
  [][ /\ \A a \in PromptAnswers :
           (~a.cancelled /\ a.text # "" /\ handleSavePreset(a))
             => Snapshot(presets'.items[1]) = Live
      /\ (phase = "running" /\ phase' = "running") =>
           \A k \in 1..Len(presets'.items) :
              \/ \E j \in 1..Len(presets.items) :
                    presets'.items[k] = presets.items[j]
              \/ k = 1 /\ Snapshot(presets'.items[1]) = Live
      /\ \A k \in 1..Len(presets.items) :
           applyPreset(k) =>
             /\ Live' = Snapshot(presets.items[k])
             /\ images' = images
             /\ activeImageIndex' = activeImageIndex ]_vars

\* the preset "Holiday", saved with headline "Save 20%", is held behind a
\* different preset, and the live values are those of "Holiday" again
PresetRestoresWitness ==
  /\ phase = "running"
  /\ Len(presets.items) = 2
  /\ presets.items[2].name = "Holiday"
  /\ presets.items[2].headline = "Save 20%"
  /\ Snapshot(presets.items[1]) # Snapshot(presets.items[2])
  /\ Live = Snapshot(presets.items[2])

\* C10: when the stored value is missing or is not a well-formed JSON array,
\* the first render leaves the live preset collection empty and the session
\* running.
StartupTolerant ==
  [][ (phase = "init" /\ store.kind # "array")
        => (phase' = "running" /\ presets' = Arr(<< >>)) ]_vars

\* C11: the presets of the live collection have pairwise distinct ids in
\* every reachable state, so that deleting by id removes one preset only.
PresetIdsUnique ==
  IsArray(presets) =>
    \A j, k \in 1..Len(presets.items) :
       j # k => presets.items[j].id # presets.items[k].id

\* C12: the rendered creative has no subhead element exactly when the micro
\* flag is set (h <= 60), whatever the layout class, the content, the theme
\* and the transform.
SubheadOmittedWhenMicro ==
  layout # Null => ((layout.subhead = Null) <=> (size.h <= 60))

\* a micro size that is no leaderboard, rendered with a non-empty subhead,
\* the dark theme and a moved image: no subhead element
SubheadOmittedWitness ==
  /\ layout # Null
  /\ size = [w |-> 10, h |-> 20]
  /\ subhead = "Ends Friday"
  /\ darkMode
  /\ layout.image = [src |-> DataUrl("a.png"), translate |-> Pt(10, 5),
                     scale |-> 300, cursor |-> "default"]
  /\ layout.subhead = Null

\* C15: once an image is loaded the active index is an index of the image
\* list; a read that completes appends its image at the end and makes it the
\* active one; no step removes or reorders images.
ActiveImageValid ==
  [][ /\ Len(images') > 0 => activeImageIndex' \in 0..(Len(images') - 1)
      /\ Len(images') >= Len(images)
      /\ SubSeq(images', 1, Len(images)) = images
      /\ \A f \in Files :
            readerOnload(f) =>
              /\ images' = images \o << DataUrl(f) >>
              /\ activeImageIndex' = Len(images)
              /\ activeImage' = DataUrl(f) ]_vars

\* two reads started as a.png then b.png have ended in the other order, and
\* the first variant was selected afterwards
ActiveImageWitness ==
  /\ images = << DataUrl("b.png"), DataUrl("a.png") >>
  /\ activeImageIndex = 0
  /\ activeImage = DataUrl("b.png")

\* a step the drag controller of the primary instance takes on a
\* pointer-move while its drag is active
DragMoveStep ==
  dragging[Primary] /\ \E e \in Points : handleMouseMove(Primary, e)

\* C13 as stated: every step that changes the shared image offset is a
\* pointer-move of the primary instance's controller in the Dragging state.
OffsetOnlyByDrag ==
  [][ imageOffset' # imageOffset => DragMoveStep ]_vars

\* C13 as amended: every step that changes the shared image offset is such
\* a pointer-move, or the application of a preset, which sets the offset to
\* the one the preset holds.
OffsetByDragOrPreset ==
  [][ imageOffset' # imageOffset =>
        \/ DragMoveStep
        \/ \E k \in 1..Len(presets.items) :
              applyPreset(k) /\ imageOffset' = presets.items[k].imageOffset ]_vars

\* the image is off the origin in a session in which no drag ever started
OffsetByPresetWitness ==
  /\ phase = "running"
  /\ dragStartRef[Primary] = Null
  /\ imageOffset = Pt(10, 5)

\* the file shows the content and the transform of the call
Shows(dataUrl, at) ==
  LET tree == dataUrl.png
  IN /\ tree.headline.text = at.content.headline
     /\ tree.subhead # Null => tree.subhead.text = at.content.subhead
     /\ tree.cta.text = at.content.cta
     /\ tree.cta.backgroundColor = at.content.primaryColor
     /\ (tree.container = "bg-slate-900") <=> at.content.darkMode
     /\ IF at.content.image = Null
        THEN "placeholder" \in DOMAIN tree.image
        ELSE /\ "src" \in DOMAIN tree.image
             /\ tree.image.src = at.content.image
             /\ tree.image.translate = at.transform.imageOffset
             /\ tree.image.scale = at.transform.imageScale

====
